---- MODULE Spec2Model ----
(***************************************************************************)
(* Model of the AIO firmware container merger (merger.py) and of the       *)
(* pre-flight overlap check of the GUI (main.py, MainWindow.run_merge).    *)
(*                                                                         *)
(* Byte buffers are sequences of integers 0..255; Python index p is the    *)
(* sequence index p + 1.  32-bit unsigned values that may exceed the       *)
(* 32-bit signed integers of TLC (CRCs) are kept as a pair of 16-bit halves *)
(* [hi, lo]; offsets and sizes are plain naturals and are converted with   *)
(* W32 when they are packed.                                               *)
(***************************************************************************)
EXTENDS Integers, Sequences, FiniteSets, TLC

----------------------------------------------------------------------------
(* Bounds of the model *)

MaxN == 3
MaxLen == 2

----------------------------------------------------------------------------
(* Program constants *)

AIO_MAGIC == <<65, 73, 79, 72>>
ELAN_VENDOR_ID == 1267
ELAN_PRODUCT_ID == <<8, 86>>
CRC32_POLY == [hi |-> 60856, lo |-> 33568]
AioHeaderLen == 32
ElanHeaderLen == 80

\* target["offset"] is None
None == -1

----------------------------------------------------------------------------
(* Arithmetic helpers *)

Max(a, b) == IF a > b THEN a ELSE b
Min(a, b) == IF a < b THEN a ELSE b

RECURSIVE Xor(_, _)
Xor(a, b) ==
    IF a = 0 THEN b
    ELSE IF b = 0 THEN a
    ELSE (((a % 2) + (b % 2)) % 2) + 2 * Xor(a \div 2, b \div 2)

W32(v) == [hi |-> v \div 65536, lo |-> v % 65536]
XorW(x, y) == [hi |-> Xor(x.hi, y.hi), lo |-> Xor(x.lo, y.lo)]
ShrW(x, n) ==
    LET p == 2 ^ n IN
    [hi |-> x.hi \div p, lo |-> (x.lo \div p) + (x.hi % p) * (65536 \div p)]

----------------------------------------------------------------------------
(* Python bytes / bytearray / struct semantics *)

Zeros(n) == [k \in 1..n |-> 0]
Fill(n, b) == [k \in 1..n |-> b]

\* buf[lo:hi] with both indices clipped to the length
Slice(buf, lo, hi) ==
    LET l == Min(lo, Len(buf))
        h == Min(hi, Len(buf))
    IN  IF h <= l THEN <<>> ELSE SubSeq(buf, l + 1, h)

\* buf[lo:hi] = data on a bytearray: the slice is replaced by data, whatever
\* its length
SliceAssign(buf, lo, hi, data) ==
    LET l == Min(lo, Len(buf))
        h == Max(l, Min(hi, Len(buf)))
    IN  SubSeq(buf, 1, l) \o data \o SubSeq(buf, h + 1, Len(buf))

\* struct.pack("<B", v), struct.pack("<H", v), struct.pack("<I", w)
PackB(v) == <<v % 256>>
PackH(v) == <<v % 256, (v \div 256) % 256>>
PackI(w) == <<w.lo % 256, w.lo \div 256, w.hi % 256, w.hi \div 256>>

\* struct raises struct.error when the value does not fit the format
FitsB(v) == v >= 0 /\ v <= 255
FitsH(v) == v >= 0 /\ v <= 65535

----------------------------------------------------------------------------
(* CRC-32 (binascii.crc32), reflected polynomial CRC32_POLY *)

\* one bit of the reflected division
CrcShift(c) ==
    IF c.lo % 2 = 1 THEN XorW(ShrW(c, 1), CRC32_POLY) ELSE ShrW(c, 1)

CrcTable ==
    [n \in 0..255 |->
        CrcShift(CrcShift(CrcShift(CrcShift(
        CrcShift(CrcShift(CrcShift(CrcShift(W32(n)))))))))]

CrcByte(c, b) == XorW(CrcTable[Xor(c.lo % 256, b)], ShrW(c, 8))

RECURSIVE CrcFeed(_, _, _)
CrcFeed(c, data, k) ==
    IF k > Len(data) THEN c ELSE CrcFeed(CrcByte(c, data[k]), data, k + 1)

AllOnes == [hi |-> 65535, lo |-> 65535]

calculate_crc32(data) == XorW(CrcFeed(AllOnes, data, 1), AllOnes)

----------------------------------------------------------------------------
(* Header generators *)

HeaderSize(fw_count) == AioHeaderLen + (fw_count * ElanHeaderLen)

generate_aio_header(fw_count) ==
    LET total_header_size == HeaderSize(fw_count)
        magic == AIO_MAGIC
        version == <<1, 0>>
        header_size == PackH(total_header_size)
        dev_type == <<1>>
        fw_version == <<120, 86, 52, 18>>
        update_ctrl == <<0>>
        fw_count_byte == PackB(fw_count)
        reserved == Fill(17, 255)
    IN  magic \o version \o header_size \o dev_type \o fw_version
            \o update_ctrl \o fw_count_byte \o reserved

\* variant: the offset and the size fields change places
generate_elan_header_Swapped(fw_offset, fw_size, crc32_val) ==
    LET h0 == Zeros(ElanHeaderLen)
        h1 == SliceAssign(h0, 0, 2, PackH(ELAN_VENDOR_ID))
        h2 == SliceAssign(h1, 34, 36, ELAN_PRODUCT_ID)
        h3 == SliceAssign(h2, 36, 38, <<255, 255>>)
        h4 == SliceAssign(h3, 38, 40, <<52, 18>>)
        h5 == SliceAssign(h4, 40, 44, PackI(W32(fw_size)))
        h6 == SliceAssign(h5, 44, 48, PackI(W32(fw_offset)))
        h7 == SliceAssign(h6, 48, 52, PackI(crc32_val))
    IN  [k \in 1..ElanHeaderLen |-> IF k - 1 >= 64 THEN 255 ELSE h7[k]]

\* variant: the header starts as 0xFF bytes instead of 0x00 bytes
generate_elan_header_FFInit(fw_offset, fw_size, crc32_val) ==
    LET h0 == Fill(ElanHeaderLen, 255)
        h1 == SliceAssign(h0, 0, 2, PackH(ELAN_VENDOR_ID))
        h2 == SliceAssign(h1, 34, 36, ELAN_PRODUCT_ID)
        h3 == SliceAssign(h2, 36, 38, <<255, 255>>)
        h4 == SliceAssign(h3, 38, 40, <<52, 18>>)
        h5 == SliceAssign(h4, 40, 44, PackI(W32(fw_offset)))
        h6 == SliceAssign(h5, 44, 48, PackI(W32(fw_size)))
        h7 == SliceAssign(h6, 48, 52, PackI(crc32_val))
    IN  [k \in 1..ElanHeaderLen |-> IF k - 1 >= 64 THEN 255 ELSE h7[k]]

generate_elan_header(fw_offset, fw_size, crc32_val) ==
    LET h0 == Zeros(ElanHeaderLen)
        h1 == SliceAssign(h0, 0, 2, PackH(ELAN_VENDOR_ID))
        h2 == SliceAssign(h1, 34, 36, ELAN_PRODUCT_ID)
        h3 == SliceAssign(h2, 36, 38, <<255, 255>>)
        h4 == SliceAssign(h3, 38, 40, <<52, 18>>)
        h5 == SliceAssign(h4, 40, 44, PackI(W32(fw_offset)))
        h6 == SliceAssign(h5, 44, 48, PackI(W32(fw_size)))
        h7 == SliceAssign(h6, 48, 52, PackI(crc32_val))
    IN  [k \in 1..ElanHeaderLen |-> IF k - 1 >= 64 THEN 255 ELSE h7[k]]

----------------------------------------------------------------------------
(* State *)

VARIABLES
    targets,          \* the ordered entry list: [path, offset], offset None or >= 0
    files,            \* the file system: path -> [exists, data]
    dest,             \* the destination file: [exists, data]
    dest0,            \* the destination file as it was before the call
    pc,               \* position in run_merge / merge_binaries
    i,                \* index of the loop in progress (1-based)
    fw_data_list,     \* merge_binaries: [data, offset, size, crc] per entry read
    current_offset,   \* merge_binaries: the running cursor
    max_end,          \* merge_binaries: size of the image
    final_bin,        \* merge_binaries: the image buffer
    ret,              \* merge_binaries: the returned (header size, total size)
    pf_current,       \* run_merge pre-flight: its running cursor
    intervals,        \* run_merge pre-flight: [idx, start, end] per entry sized
    overlaps_detected \* run_merge pre-flight: reported pairs <<prev_idx, idx>>

vars == <<targets, files, dest, dest0, pc, i, fw_data_list, current_offset,
          max_end, final_bin, ret, pf_current, intervals, overlaps_detected>>

engineVars == <<fw_data_list, current_offset, max_end, final_bin, ret>>
preflightVars == <<pf_current, intervals, overlaps_detected>>
inputVars == <<targets, files, dest0>>

fw_count == Len(targets)
total_header_size == HeaderSize(fw_count)

----------------------------------------------------------------------------
(* Inputs *)

NoFile == [exists |-> FALSE, data |-> <<>>]
File(data) == [exists |-> TRUE, data |-> data]

\* content of the source file of entry p: every byte of every file is distinct
\* and differs from 0x00 and 0xFF
Payload(p, size) == [j \in 1..size |-> (16 * p) + j]

\* None, the last offset inside the header region, and an offset past the
\* header that reaches into a neighbour's payload
OffsetChoices(n) == {None, HeaderSize(n) - 1, HeaderSize(n) + 1}

\* a missing source file, or one of 0..MaxLen bytes
Missing == -1
SourceFile(p, sz) == IF sz = Missing THEN NoFile ELSE File(Payload(p, sz))

InitInputs ==
    /\ \E n \in 1..MaxN :
         \E offs \in [1..n -> OffsetChoices(n)] :
           \E szs \in [1..n -> {Missing} \cup (0..MaxLen)] :
             /\ targets = [p \in 1..n |-> [path |-> p, offset |-> offs[p]]]
             /\ files = [p \in 1..n |-> SourceFile(p, szs[p])]
    /\ dest0 = NoFile
    /\ dest = dest0
    /\ i = 1
    /\ fw_data_list = <<>>
    /\ current_offset = total_header_size
    /\ max_end = 0
    /\ final_bin = <<>>
    /\ ret = <<>>
    /\ pf_current = total_header_size
    /\ intervals = <<>>
    /\ overlaps_detected = {}

\* merge_binaries called directly on the entry list
Init == InitInputs /\ pc = "gather"

----------------------------------------------------------------------------
(* merge_binaries *)

\* variant: an explicit offset is never clamped to the header size
ResolveOffset_NoClamp(offset, cursor, header_size) ==
    IF offset = None THEN Max(cursor, header_size)
    ELSE offset

\* variant: an auto-append entry ignores the cursor
ResolveOffset_AutoAtHeader(offset, cursor, header_size) ==
    IF offset = None THEN header_size
    ELSE IF offset < header_size THEN header_size
    ELSE offset

\* variant: an explicit offset is pushed past the cursor to avoid an overlap
ResolveOffset_PastCursor(offset, cursor, header_size) ==
    IF offset = None THEN Max(cursor, header_size)
    ELSE IF offset < header_size THEN header_size
    ELSE Max(offset, cursor)

\* the offset rules of the gather loop
ResolveOffset(offset, cursor, header_size) ==
    IF offset = None THEN Max(cursor, header_size)
    ELSE IF offset < header_size THEN header_size
    ELSE offset

\* 1. one iteration of the gather loop: the source is read
Gather ==
    /\ pc = "gather"
    /\ files[targets[i].path].exists
    /\ LET data == files[targets[i].path].data
           offset == ResolveOffset(targets[i].offset, current_offset,
                                   total_header_size)
           size == Len(data)
       IN  /\ fw_data_list' = Append(fw_data_list,
                 [data |-> data, offset |-> offset, size |-> size,
                  crc |-> W32(0)])
           /\ current_offset' = offset + size
    /\ i' = i + 1
    /\ pc' = IF i = fw_count THEN "construct" ELSE "gather"
    /\ UNCHANGED <<inputVars, dest, max_end, final_bin, ret, preflightVars>>

\* 1. open(filepath, "rb") raises: the call ends with the exception
GatherRaise ==
    /\ pc = "gather"
    /\ ~files[targets[i].path].exists
    /\ pc' = "failed"
    /\ UNCHANGED <<inputVars, dest, i, engineVars, preflightVars>>

RECURSIVE MaxEndFrom(_, _, _)
MaxEndFrom(list, k, acc) ==
    IF k > Len(list) THEN acc
    ELSE MaxEndFrom(list, k + 1,
                    IF list[k].offset + list[k].size > acc
                    THEN list[k].offset + list[k].size ELSE acc)

\* variant: the image ends where the last entry ends
ImageSize_LastEnd(list, header_size) ==
    Max(header_size, list[Len(list)].offset + list[Len(list)].size)

\* the size of the image
ImageSize(list, header_size) == MaxEndFrom(list, 1, header_size)

\* variant: bytes an earlier entry wrote are kept
CopyData_KeepEarlier(buf, target) ==
    LET w == SliceAssign(buf, target.offset, target.offset + target.size,
                         target.data)
    IN  [k \in 1..Len(w) |-> IF k <= Len(buf) /\ buf[k] # 0 THEN buf[k] ELSE w[k]]

\* final_bin[ofs:ofs+sz] = target["data"]
CopyData(buf, target) ==
    SliceAssign(buf, target.offset, target.offset + target.size, target.data)

\* the copy loop, in input order from entry k
RECURSIVE CopyAll(_, _, _)
CopyAll(buf, list, k) ==
    IF k > Len(list) THEN buf
    ELSE CopyAll(CopyData(buf, list[k]), list, k + 1)

\* 2. max_end, the zeroed image and the copy loop
Construct ==
    /\ pc = "construct"
    /\ max_end' = ImageSize(fw_data_list, total_header_size)
    /\ final_bin' = CopyAll(Zeros(max_end'), fw_data_list, 1)
    /\ pc' = "crc"
    /\ UNCHANGED <<inputVars, dest, i, fw_data_list, current_offset, ret,
                   preflightVars>>

\* variant: the CRC is taken over the entry's own payload
TargetCrc_OwnData(buf, target) == calculate_crc32(target.data)

\* target["crc"] of one entry
TargetCrc(buf, target) ==
    calculate_crc32(Slice(buf, target.offset, target.offset + target.size))

\* 3. the CRC loop
Crc ==
    /\ pc = "crc"
    /\ fw_data_list' =
           [k \in 1..Len(fw_data_list) |->
               [fw_data_list[k] EXCEPT !.crc = TargetCrc(final_bin, fw_data_list[k])]]
    /\ pc' = "headers"
    /\ UNCHANGED <<inputVars, dest, i, current_offset, max_end, final_bin,
                   ret, preflightVars>>

RECURSIVE ElanHeaders(_, _)
ElanHeaders(list, k) ==
    IF k > Len(list) THEN <<>>
    ELSE generate_elan_header(list[k].offset, list[k].size, list[k].crc)
             \o ElanHeaders(list, k + 1)

\* final_bin[0:total_header_size] = aio_header + elan_headers
WriteHeaders(buf, list, header_size) ==
    SliceAssign(buf, 0, header_size,
                generate_aio_header(Len(list)) \o ElanHeaders(list, 1))

\* 4. - 6. the headers are generated and copied to 0x0000; struct.pack
\* raises when the header size or the count does not fit its field
Headers ==
    /\ pc = "headers"
    /\ IF FitsH(total_header_size) /\ FitsB(fw_count)
       THEN /\ final_bin' = WriteHeaders(final_bin, fw_data_list,
                                         total_header_size)
            /\ pc' = "open"
       ELSE /\ pc' = "failed"
            /\ UNCHANGED final_bin
    /\ UNCHANGED <<inputVars, dest, i, fw_data_list, current_offset, max_end,
                   ret, preflightVars>>

\* open(output_filepath, "wb"): the file is created or truncated
Open ==
    /\ pc = "open"
    /\ dest' = File(<<>>)
    /\ pc' = "write"
    /\ UNCHANGED <<inputVars, i, engineVars, preflightVars>>

\* open(output_filepath, "wb") raises: the destination is untouched
OpenRaise ==
    /\ pc = "open"
    /\ pc' = "failed"
    /\ UNCHANGED <<inputVars, dest, i, engineVars, preflightVars>>

\* f.write(final_bin) and the return
Write ==
    /\ pc = "write"
    /\ dest' = File(final_bin)
    /\ ret' = <<total_header_size, max_end>>
    /\ pc' = "done"
    /\ UNCHANGED <<inputVars, i, fw_data_list, current_offset, max_end,
                   final_bin, preflightVars>>

\* the lengths at which a failing write may stop
PartialLengths(buf) == {Len(buf) \div 2}

\* f.write(final_bin) raises (device full, I/O error) after part of the
\* buffer reached the file
WriteRaise ==
    /\ pc = "write"
    /\ \E n \in PartialLengths(final_bin) :
           dest' = File(SubSeq(final_bin, 1, n))
    /\ pc' = "failed"
    /\ UNCHANGED <<inputVars, i, engineVars, preflightVars>>

Next ==
    \/ Gather
    \/ GatherRaise
    \/ Construct
    \/ Crc
    \/ Headers
    \/ Open
    \/ OpenRaise
    \/ Write
    \/ WriteRaise

Spec == Init /\ [][Next]_vars

----------------------------------------------------------------------------
(* MainWindow.run_merge: the pre-flight overlap check, then merge_binaries *)

\* the offset rules as the pre-flight loop re-derives them
PreflightOffset(offset, cursor, header_size) ==
    IF offset = None THEN Max(cursor, header_size)
    ELSE IF offset < header_size THEN header_size
    ELSE offset

\* the test of the inner loop over the previous intervals
PreflightIntersect(offset, end_offset, prev) ==
    offset < prev.end /\ end_offset > prev.start

AfterPreflight(found) ==
    IF i < fw_count THEN "preflight"
    ELSE IF found # {} THEN "confirm" ELSE "save"

\* one iteration of the pre-flight loop: os.path.getsize succeeds
PreflightStep ==
    /\ pc = "preflight"
    /\ files[targets[i].path].exists
    /\ LET size == Len(files[targets[i].path].data)
           offset == PreflightOffset(targets[i].offset, pf_current,
                                     total_header_size)
           end_offset == offset + size
           found == {<<intervals[q].idx, i>> : q \in
                       {r \in 1..Len(intervals) :
                           PreflightIntersect(offset, end_offset, intervals[r])}}
       IN  /\ overlaps_detected' = overlaps_detected \cup found
           /\ intervals' = Append(intervals,
                 [idx |-> i, start |-> offset, end |-> end_offset])
           /\ pf_current' = end_offset
           /\ pc' = AfterPreflight(overlaps_detected')
    /\ i' = i + 1
    /\ UNCHANGED <<inputVars, dest, engineVars>>

\* one iteration of the pre-flight loop: os.path.getsize raises OSError and
\* the entry is skipped
PreflightSkip ==
    /\ pc = "preflight"
    /\ ~files[targets[i].path].exists
    /\ pc' = AfterPreflight(overlaps_detected)
    /\ i' = i + 1
    /\ UNCHANGED <<inputVars, dest, engineVars, preflightVars>>

\* the overlap warning is answered Yes
ConfirmYes ==
    /\ pc = "confirm"
    /\ pc' = "save"
    /\ UNCHANGED <<inputVars, dest, i, engineVars, preflightVars>>

\* the overlap warning is answered No
ConfirmNo ==
    /\ pc = "confirm"
    /\ pc' = "cancelled"
    /\ UNCHANGED <<inputVars, dest, i, engineVars, preflightVars>>

\* a save path is chosen and merge_binaries is called
SaveChosen ==
    /\ pc = "save"
    /\ pc' = "gather"
    /\ i' = 1
    /\ UNCHANGED <<inputVars, dest, engineVars, preflightVars>>

\* the save dialog is dismissed
SaveCancelled ==
    /\ pc = "save"
    /\ pc' = "cancelled"
    /\ UNCHANGED <<inputVars, dest, i, engineVars, preflightVars>>

\* run_merge on the rows' entry list
InitGui == InitInputs /\ pc = "preflight"

NextGui ==
    \/ PreflightStep
    \/ PreflightSkip
    \/ ConfirmYes
    \/ ConfirmNo
    \/ SaveChosen
    \/ SaveCancelled
    \/ Gather
    \/ GatherRaise
    \/ Construct
    \/ Crc
    \/ Headers
    \/ Open
    \/ OpenRaise
    \/ Write
    \/ WriteRaise

SpecGui == InitGui /\ [][NextGui]_vars

----------------------------------------------------------------------------
(* Reading a produced file back *)

\* int.from_bytes / struct.unpack of a little-endian field
UnpackB(bytes) == bytes[1]
UnpackH(bytes) == bytes[1] + (256 * bytes[2])
UnpackI(bytes) ==
    [hi |-> bytes[3] + (256 * bytes[4]), lo |-> bytes[1] + (256 * bytes[2])]

Resolved == 1..Len(fw_data_list)
EndOf(k) == fw_data_list[k].offset + fw_data_list[k].size
Covers(k, p) == fw_data_list[k].offset <= p /\ p < EndOf(k)
SetMax(S) == CHOOSE m \in S : \A x \in S : m >= x

\* where the header of entry k starts in the file
ElanBase(k) == AioHeaderLen + ((k - 1) * ElanHeaderLen)
\* field of the file at [base + lo, base + hi)
Field(k, lo, hi) == Slice(dest.data, ElanBase(k) + lo, ElanBase(k) + hi)

Produced == pc = "done"

----------------------------------------------------------------------------
(* Claims *)

\* C1: every entry's resolved offset is >= header_size = 0x20 + N*0x50, so no
\* payload is placed inside the header region.
C1_OffsetsClearHeader ==
    \A k \in Resolved : fw_data_list[k].offset >= 32 + (80 * fw_count)

\* C1 witness: a produced image with a non-empty entry whose explicit offset
\* lies inside the header region.
C1_Witness ==
    /\ Produced
    /\ \E k \in Resolved :
          /\ targets[k].offset # None
          /\ targets[k].offset < total_header_size
          /\ fw_data_list[k].size > 0

\* C2 as stated: an auto-append entry is placed at max(cursor, header_size)
\* where the cursor is the highest end of data among all earlier entries.
C2_AutoAfterHighestEnd ==
    \A k \in Resolved :
        targets[k].offset = None =>
            fw_data_list[k].offset =
                SetMax({total_header_size} \cup {EndOf(j) : j \in 1..(k - 1)})

\* C2 amended: an auto-append entry is placed at max(cursor, header_size)
\* where the cursor is the end of the immediately preceding entry
\* (header_size for the first entry).
C2_AutoAfterPrecedingEnd ==
    \A k \in Resolved :
        targets[k].offset = None =>
            fw_data_list[k].offset =
                Max(IF k = 1 THEN total_header_size ELSE EndOf(k - 1),
                    total_header_size)

\* C2 witness: an auto-append entry whose predecessor ends below the highest
\* end of data seen before it.
C2_Witness ==
    /\ Produced
    /\ \E k \in Resolved :
          /\ k > 1
          /\ targets[k].offset = None
          /\ EndOf(k - 1) < SetMax({EndOf(j) : j \in 1..(k - 1)})

\* C3: an explicit offset e >= header_size is resolved to e exactly, whatever
\* the other entries and the cursor; an explicit offset e < header_size is
\* resolved to header_size.
C3_ExplicitOffsets ==
    \A k \in Resolved :
        LET e == targets[k].offset IN
        e # None =>
            /\ (e >= total_header_size => fw_data_list[k].offset = e)
            /\ (e < total_header_size =>
                    fw_data_list[k].offset = total_header_size)

\* C3 witness: an explicit offset past the header that lands inside the
\* payload of an earlier entry.
C3_Witness ==
    /\ Produced
    /\ \E k \in Resolved : \E j \in 1..(k - 1) :
          /\ targets[k].offset # None
          /\ targets[k].offset >= total_header_size
          /\ fw_data_list[k].size > 0
          /\ Covers(j, targets[k].offset)
          /\ current_offset >= total_header_size

\* C4: in the written image every position covered by one or more resolved
\* ranges holds the payload byte of the highest-index entry covering it.
C4_LaterEntryWins ==
    Produced =>
        \A p \in UNION {fw_data_list[c].offset..(EndOf(c) - 1) : c \in Resolved} :
            LET cover == {k \in Resolved : Covers(k, p)} IN
            cover # {} =>
                LET k == SetMax(cover) IN
                dest.data[p + 1] =
                    files[targets[k].path].data[(p - fw_data_list[k].offset) + 1]

\* C4 witness: a written image with a position covered by two entries.
C4_Witness ==
    /\ Produced
    /\ \E p \in 0..(Len(dest.data) - 1) :
          Cardinality({k \in Resolved : Covers(k, p)}) >= 2

\* C5: the CRC stored in the header of entry k is the CRC-32 of the written
\* file's bytes at the entry's resolved range, as they are after all entries
\* were copied and the headers serialized.
C5_CrcOfFinalSlice ==
    Produced =>
        \A k \in Resolved :
            UnpackI(Field(k, 48, 52)) =
                calculate_crc32(Slice(dest.data, fw_data_list[k].offset, EndOf(k)))

\* C5 witness: an entry whose stored CRC is not the CRC of its own payload,
\* because a later entry overwrote part of it.
C5_Witness ==
    /\ Produced
    /\ \E k \in Resolved :
          UnpackI(Field(k, 48, 52)) # calculate_crc32(files[targets[k].path].data)

\* C6: a call that raises leaves the destination as it was (not created,
\* truncated or partially written); a call that returns leaves the complete
\* image in it.
C6_AllOrNothing ==
    /\ pc = "failed" => dest = dest0
    /\ pc = "done" => dest = File(final_bin)

\* C7: parsing the headers of a produced file gives header_size = 0x20 +
\* N*0x50, entry_count = N and, for each entry in input order, the offset,
\* size and CRC computed during the merge; the header region starts with the
\* magic and is header_size bytes of serialized headers.
C7_HeadersRoundTrip ==
    Produced =>
        /\ Slice(dest.data, 0, 4) = AIO_MAGIC
        /\ UnpackH(Slice(dest.data, 6, 8)) = 32 + (80 * fw_count)
        /\ UnpackB(Slice(dest.data, 14, 15)) = fw_count
        /\ \A k \in Resolved :
              /\ UnpackI(Field(k, 40, 44)) = W32(fw_data_list[k].offset)
              /\ UnpackI(Field(k, 44, 48)) = W32(fw_data_list[k].size)
              /\ UnpackI(Field(k, 48, 52)) = fw_data_list[k].crc
              /\ UnpackH(Field(k, 0, 2)) = ELAN_VENDOR_ID

\* C7 witness: a produced file of several entries with distinct offsets and
\* sizes and a non-zero CRC.
C7_Witness ==
    /\ Produced
    /\ \E j \in Resolved : \E k \in Resolved :
          /\ fw_data_list[j].offset # fw_data_list[k].offset
          /\ fw_data_list[j].size # fw_data_list[k].size
          /\ fw_data_list[j].offset # fw_data_list[j].size
          /\ fw_data_list[k].crc # W32(0)

\* the bytes of an entry header that belong to no specified field
UnspecifiedBytes == (2..33) \cup (52..63) \cup (64..79)

\* C8 as stated: in every written entry header the bytes outside the
\* specified fields are 0xFF, except the CRC padding 0x34-0x3F which is 0x00.
C8_UnspecifiedAreFF ==
    Produced =>
        \A k \in Resolved : \A b \in UnspecifiedBytes :
            Field(k, b, b + 1) = IF b \in 52..63 THEN <<0>> ELSE <<255>>

\* C8 amended: in every written entry header the reserved bytes 0x40-0x4F
\* are 0xFF, and both the CRC padding 0x34-0x3F and the unspecified bytes
\* 0x02-0x21 are 0x00.
C8_ElanPadding ==
    Produced =>
        \A k \in Resolved : \A b \in UnspecifiedBytes :
            Field(k, b, b + 1) = IF b \in 64..79 THEN <<255>> ELSE <<0>>

\* C8 witness: a written file with more than one entry header.
C8_Witness ==
    /\ Produced
    /\ Len(fw_data_list) >= 2
    /\ Len(dest.data) >= ElanBase(2) + ElanHeaderLen

\* C9: on success the call returns (header_size, total_size) with
\* header_size = 0x20 + N*0x50 and total_size = max(header_size, max over
\* entries of offset + size), and the file is exactly total_size bytes long.
C9_ReturnAndLength ==
    Produced =>
        /\ ret = <<32 + (80 * fw_count),
                   SetMax({32 + (80 * fw_count)} \cup {EndOf(k) : k \in Resolved})>>
        /\ Len(dest.data) = ret[2]

\* C9 witness: a produced image whose last entry ends below the end of the
\* image.
C9_Witness ==
    /\ Produced
    /\ EndOf(Len(fw_data_list)) < ret[2]
    /\ ret[2] > ret[1]

\* C10: the pre-flight loop gives every entry the engine resolves the same
\* offset and end as the engine, and reports a pair of entries exactly when
\* their engine-resolved ranges intersect.
C10_PreflightMatchesEngine ==
    /\ \A k \in Resolved :
          \E q \in 1..Len(intervals) :
              /\ intervals[q].idx = k
              /\ intervals[q].start = fw_data_list[k].offset
              /\ intervals[q].end = EndOf(k)
    /\ \A k \in Resolved : \A j \in 1..(k - 1) :
          (<<j, k>> \in overlaps_detected) <=>
              (\E p \in 0..SetMax({EndOf(j), EndOf(k)}) :
                  Covers(j, p) /\ Covers(k, p))

====
